---- MODULE Spec2Model ----
(***************************************************************************)
(* Model of opensourceleg/hardware.py: the Dephy actpack mode state        *)
(* machine (ActpackMode and its four subclasses), the DephyActpack         *)
(* setters, and the unit conversion the commands pass through.             *)
(*                                                                         *)
(* Python floats are IEEE-754 doubles.  A double is modelled exactly as a  *)
(* record [s, hi, lo, e] standing for (-1)^s * (hi * 2^28 + lo) * 2^e with *)
(* a 53-bit significand (2^52 <= hi * 2^28 + lo < 2^53) or zero, and the   *)
(* arithmetic rounds to nearest, ties to even, as the hardware does.       *)
(* Subnormals, infinities and NaN are out of the range the model uses.     *)
(***************************************************************************)
EXTENDS Integers, Sequences, FiniteSets, TLC

\* ------------------------------------------------------------------------
\* IEEE-754 double arithmetic (Python float)
\* ------------------------------------------------------------------------
\* An operand that is costly to evaluate is bound as the one element of a
\* set, so that it is evaluated once:  CHOOSE r \in {f(x) : x \in {v}} : TRUE
\* is f(v).

RECURSIVE Pow2(_)
Pow2(n) == IF n = 0 THEN 1 ELSE 2 * Pow2(n - 1)

\* the two word sizes the significand is split into
W28 == Pow2(28)

W14 == Pow2(14)

RECURSIVE BitLen(_)
BitLen(n) == IF n = 0 THEN 0 ELSE 1 + BitLen(n \div 2)

FZero == [s |-> 0, hi |-> 0, lo |-> 0, e |-> 0]

FIsZero(x) == x.hi = 0 /\ x.lo = 0

\* Round a significand (hi, lo) that already has 53 bits, given the guard bit
\* and the sticky bit of what was shifted out: nearest, ties to even.
FRound(s, hi, lo, e, guard, sticky) ==
    LET up  == guard = 1 /\ (sticky \/ (lo % 2) = 1)
        lo1 == IF up THEN lo + 1 ELSE lo
        lo2 == lo1 % W28
        hi2 == hi + lo1 \div W28
    IN  IF hi2 = Pow2(25)
        THEN [s |-> s, hi |-> Pow2(24), lo |-> 0, e |-> e + 1]
        ELSE [s |-> s, hi |-> hi2, lo |-> lo2, e |-> e]

\* int -> float, exact for |n| < 2^25
FromInt(n) ==
    LET a == IF n < 0 THEN 0 - n ELSE n
        k == BitLen(a)
    IN  IF n = 0 THEN FZero
        ELSE [s |-> IF n < 0 THEN 1 ELSE 0,
              hi |-> a * Pow2(25 - k), lo |-> 0, e |-> k - 53]

\* float * float, on evaluated operands
Mul53(x, y) ==
    IF FIsZero(x) \/ FIsZero(y)
    THEN [FZero EXCEPT !.s = (x.s + y.s) % 2]
    ELSE
    LET a0 == x.lo % W14   a1 == x.lo \div W14
        a2 == x.hi % W14   a3 == x.hi \div W14
        b0 == y.lo % W14   b1 == y.lo \div W14
        b2 == y.hi % W14   b3 == y.hi \div W14
        \* column sums of the schoolbook product, base 2^14
        c0 == a0 * b0
        c1 == a0 * b1 + a1 * b0
        c2 == a0 * b2 + a1 * b1 + a2 * b0
        c3 == a0 * b3 + a1 * b2 + a2 * b1 + a3 * b0
        c4 == a1 * b3 + a2 * b2 + a3 * b1
        c5 == a2 * b3 + a3 * b2
        c6 == a3 * b3
        t0 == c0
        t1 == c1 + t0 \div W14
        t2 == c2 + t1 \div W14
        t3 == c3 + t2 \div W14
        t4 == c4 + t3 \div W14
        t5 == c5 + t4 \div W14
        t6 == c6 + t5 \div W14
        \* the 106-bit product as four 28-bit words
        w0 == (t0 % W14) + (t1 % W14) * W14
        w1 == (t2 % W14) + (t3 % W14) * W14
        w2 == (t4 % W14) + (t5 % W14) * W14
        w3 == t6
        t  == IF w3 >= Pow2(21) THEN 25 ELSE 24
        hi == w3 * Pow2(28 - t) + w2 \div Pow2(t)
        lo == (w2 % Pow2(t)) * Pow2(28 - t) + w1 \div Pow2(t)
        guard  == (w1 \div Pow2(t - 1)) % 2
        sticky == (w1 % Pow2(t - 1) # 0) \/ (w0 # 0)
    IN  FRound((x.s + y.s) % 2, hi, lo, x.e + y.e + 28 + t, guard, sticky)

\* float * float
FMul(x, y) == CHOOSE r \in {Mul53(p[1], p[2]) : p \in {<<x, y>>}} : TRUE

\* One step of binary long division: st = <<rhi, rlo, qhi, qlo>>
DivStep(st, dhi, dlo) ==
    LET r2lo == (2 * st[2]) % W28
        r2hi == 2 * st[1] + (2 * st[2]) \div W28
        ge   == r2hi > dhi \/ (r2hi = dhi /\ r2lo >= dlo)
        bw   == IF r2lo < dlo THEN 1 ELSE 0
        rlo  == IF ge THEN r2lo - dlo + bw * W28 ELSE r2lo
        rhi  == IF ge THEN r2hi - dhi - bw ELSE r2hi
        q2lo == ((2 * st[4]) % W28) + (IF ge THEN 1 ELSE 0)
        q2hi == 2 * st[3] + (2 * st[4]) \div W28
    IN  <<rhi, rlo, q2hi, q2lo>>

RECURSIVE DivLoop(_, _, _, _)
DivLoop(st, dhi, dlo, n) ==
    IF n = 0 THEN st
    ELSE CHOOSE r \in {DivLoop(a, dhi, dlo, n - 1) : a \in {DivStep(st, dhi, dlo)}} :
            TRUE

\* float / float (y nonzero), on evaluated operands
Div53(x, y) ==
    IF FIsZero(x)
    THEN [FZero EXCEPT !.s = (x.s + y.s) % 2]
    ELSE
    LET ge0 == x.hi > y.hi \/ (x.hi = y.hi /\ x.lo >= y.lo)
        bw0 == IF x.lo < y.lo THEN 1 ELSE 0
        st0 == IF ge0
               THEN <<x.hi - y.hi - bw0, x.lo - y.lo + bw0 * W28, 0, 1>>
               ELSE <<x.hi, x.lo, 0, 0>>
        \* quotient of (significand * 2^55) by the divisor's significand
    IN  CHOOSE r \in {
          LET qhi == st[3]
              qlo == st[4]
              t   == IF qhi >= Pow2(27) THEN 3 ELSE 2
              hi  == qhi \div Pow2(t)
              lo  == (qhi % Pow2(t)) * Pow2(28 - t) + qlo \div Pow2(t)
              guard  == (qlo \div Pow2(t - 1)) % 2
              sticky == (qlo % Pow2(t - 1) # 0) \/ st[1] # 0 \/ st[2] # 0
          IN  FRound((x.s + y.s) % 2, hi, lo, x.e - y.e - 55 + t, guard, sticky)
          : st \in {DivLoop(st0, y.hi, y.lo, 55)}} : TRUE

\* float / float (y nonzero)
FDiv(x, y) == CHOOSE r \in {Div53(p[1], p[2]) : p \in {<<x, y>>}} : TRUE

\* int(float): truncation toward zero, for |x| < 2^30
Trunc(x) ==
    LET sh  == 0 - x.e
        mag == IF FIsZero(x) \/ sh >= 53 THEN 0
               ELSE IF sh >= 28 THEN x.hi \div Pow2(sh - 28)
               ELSE x.hi * Pow2(28 - sh) + x.lo \div Pow2(sh)
    IN  IF x.s = 1 THEN 0 - mag ELSE mag

FToInt(x) == CHOOSE r \in {Trunc(v) : v \in {x}} : TRUE

\* A positive double given by its significand words and exponent
Dbl(hi, lo, e) == [s |-> 0, hi |-> hi, lo |-> lo, e |-> e]

\* ------------------------------------------------------------------------
\* Constants of hardware.py
\* ------------------------------------------------------------------------
MOTOR_COUNT_PER_REV == 16384

\* np.pi = 3.141592653589793
PI == Dbl(26353589, 71576856, -51)

\* RAD_PER_COUNT = 2 * np.pi / MOTOR_COUNT_PER_REV
RAD_PER_COUNT == FDiv(FMul(FromInt(2), PI), FromInt(MOTOR_COUNT_PER_REV))

\* NM_PER_AMP = 0.1133
NM_PER_AMP == Dbl(30413737, 44238163, -56)

\* NM_PER_MILLIAMP = NM_PER_AMP / 1000
NM_PER_MILLIAMP == FDiv(NM_PER_AMP, FromInt(1000))

\* ALL_UNITS: category -> unit name -> factor to the default unit
ALL_UNITS ==
    "force" :> (
        "N" :> Dbl(16777216, 0, -52)   \* 1.0
        @@ "lbf" :> Dbl(18657193, 191602135, -50)   \* 4.4482216152605
        @@ "kgf" :> Dbl(20566035, 177382149, -49)   \* 9.80665
       )
    @@ "torque" :> (
        "N-m" :> Dbl(16777216, 0, -52)   \* 1.0
        @@ "lbf-in" :> Dbl(30329134, 27141596, -56)   \* 0.1129848290276167
        @@ "lbf-ft" :> Dbl(22746850, 154573925, -52)   \* 1.3558179483314004
        @@ "kgf-cm" :> Dbl(26324525, 173362060, -56)   \* 0.0980665
        @@ "kgf-m" :> Dbl(32905657, 15375983, -53)   \* 0.980665
       )
    @@ "stiffness" :> (
        "N/rad" :> Dbl(16777216, 0, -52)   \* 1.0
        @@ "N/deg" :> Dbl(18740330, 38968633, -58)   \* 0.017453292519943295
        @@ "lbf/rad" :> Dbl(30173353, 57432303, -55)   \* 0.224809
        @@ "lbf/deg" :> Dbl(29984532, 132332272, -61)   \* 0.003490659
        @@ "kgf/rad" :> Dbl(31068918, 139188755, -52)   \* 1.8518518518518519
        @@ "kgf/deg" :> Dbl(17043521, 4260880, -57)   \* 0.031746031746031744
       )
    @@ "damping" :> (
        "N/(rad/s)" :> Dbl(16777216, 0, -52)   \* 1.0
        @@ "N/(deg/s)" :> Dbl(18740330, 38968633, -58)   \* 0.017453292519943295
        @@ "lbf/(rad/s)" :> Dbl(30173353, 57432303, -55)   \* 0.224809
        @@ "lbf/(deg/s)" :> Dbl(29984532, 132332272, -61)   \* 0.003490659
        @@ "kgf/(rad/s)" :> Dbl(31068918, 139188755, -52)   \* 1.8518518518518519
        @@ "kgf/(deg/s)" :> Dbl(17043521, 4260880, -57)   \* 0.031746031746031744
       )
    @@ "length" :> (
        "m" :> Dbl(16777216, 0, -52)   \* 1.0
        @@ "cm" :> Dbl(21474836, 128849019, -59)   \* 0.01
        @@ "in" :> Dbl(27273042, 88476326, -58)   \* 0.0254
        @@ "ft" :> Dbl(20454781, 200574973, -54)   \* 0.3048
       )
    @@ "angle" :> (
        "rad" :> Dbl(16777216, 0, -52)   \* 1.0
        @@ "deg" :> Dbl(18740330, 38968633, -58)   \* 0.017453292519943295
       )
    @@ "mass" :> (
        "kg" :> Dbl(16777216, 0, -52)   \* 1.0
        @@ "g" :> Dbl(17179869, 49392124, -62)   \* 0.001
        @@ "lb" :> Dbl(30440068, 179789393, -54)   \* 0.45359237
       )
    @@ "velocity" :> (
        "rad/s" :> Dbl(16777216, 0, -52)   \* 1.0
        @@ "deg/s" :> Dbl(18740330, 38968633, -58)   \* 0.017453292519943295
        @@ "rpm" :> Dbl(28110495, 58452949, -56)   \* 0.10471975511965977
       )
    @@ "acceleration" :> (
        "rad/s^2" :> Dbl(16777216, 0, -52)   \* 1.0
        @@ "deg/s^2" :> Dbl(18740330, 38968633, -58)   \* 0.017453292519943295
       )
    @@ "time" :> (
        "s" :> Dbl(16777216, 0, -52)   \* 1.0
        @@ "ms" :> Dbl(17179869, 49392124, -62)   \* 0.001
        @@ "us" :> Dbl(17592186, 11922829, -72)   \* 0.000001
       )
    @@ "current" :> (
        "mA" :> Dbl(16777216, 0, -52)   \* 1
        @@ "A" :> Dbl(32768000, 0, -43)   \* 1000
       )
    @@ "voltage" :> (
        "mV" :> Dbl(16777216, 0, -52)   \* 1
        @@ "V" :> Dbl(32768000, 0, -43)   \* 1000
       )
    @@ "gravity" :> (
        "m/s^2" :> Dbl(16777216, 0, -52)   \* 1.0
        @@ "g" :> Dbl(20566035, 177382149, -49)   \* 9.80665
       )

Categories == DOMAIN ALL_UNITS

DEFAULT_UNITS ==
    "force" :> "N" @@ "torque" :> "N-m" @@ "stiffness" :> "N/rad"
    @@ "damping" :> "N/(rad/s)" @@ "length" :> "m" @@ "angle" :> "rad"
    @@ "mass" :> "kg" @@ "velocity" :> "rad/s" @@ "acceleration" :> "rad/s^2"
    @@ "time" :> "s" @@ "current" :> "mA" @@ "voltage" :> "mV"
    @@ "gravity" :> "m/s^2"

\* UnitsDefinition.convert_to_default_units / convert_from_default_units
\* a conversion to the default unit that divides by the factor
convert_to_default_units_dividing(u, value, attribute) ==
    FDiv(value, ALL_UNITS[attribute][u[attribute]])

convert_to_default_units(u, value, attribute) ==
    FMul(value, ALL_UNITS[attribute][u[attribute]])

\* a conversion from the default unit that multiplies by the factor
convert_from_default_units_multiplying(u, value, attribute) ==
    FMul(value, ALL_UNITS[attribute][u[attribute]])

convert_from_default_units(u, value, attribute) ==
    FDiv(value, ALL_UNITS[attribute][u[attribute]])

\* Gains defaults: <<kp, ki, kd, K, B, ff>>
DEFAULT_POSITION_GAINS == [kp |-> 200, ki |-> 50, kd |-> 0, K |-> 0, B |-> 0, ff |-> 0]

DEFAULT_CURRENT_GAINS == [kp |-> 40, ki |-> 400, kd |-> 0, K |-> 0, B |-> 0, ff |-> 128]

DEFAULT_IMPEDANCE_GAINS == [kp |-> 40, ki |-> 400, kd |-> 0, K |-> 300, B |-> 1600, ff |-> 128]

\* DephyActpack.__init__ default of frequency
DEFAULT_FREQUENCY == 500

\* ------------------------------------------------------------------------
\* Bounds of the model
\* ------------------------------------------------------------------------
\* largest raw motor angle (encoder counts) the device reports in a frame
MaxMotAng == 11

\* largest command value (in the selected unit) the application passes
MaxValue == 1

\* largest raw motor current (mA) in a frame the device delivers
MaxMotCur == 1

\* the positive fade time of a LoopKiller and the last tick of the clock
MaxFade == 2

MaxClock == 5

\* ------------------------------------------------------------------------
\* State
\* ------------------------------------------------------------------------
VARIABLES
    _mode,       \* DephyActpack._mode: the tracked active mode
    _has_gains,  \* ActpackMode._has_gains of each of the four mode objects
    _data,       \* DephyActpack._data: the stored telemetry frame
    _units,      \* DephyActpack._units: the UnitsDefinition in use
    is_open,     \* the device is open (between start() and stop())
    device_cmd,  \* the last motor command the device received (no_command: none yet)
    op,          \* the operation that ran last and its arguments
    result,      \* "ok", or the exception the operation raised
    trace,       \* what the operation did: exit()/enter() calls and device calls
    units_heap,  \* the UnitsDefinition objects of the process, by identity
    units_ref,   \* which UnitsDefinition object the _units of each holder is
    killer,      \* SoftRealtimeLoop.killer: the fields of the LoopKiller
    clock        \* time.time(), in ticks

vars == <<_mode, _has_gains, _data, _units, is_open, device_cmd, op, result, trace,
          units_heap, units_ref, killer, clock>>

\* the objects that hold a _units attribute: two actuators and the leg
Holders == {"actpack_1", "actpack_2", "osl"}

\* the UnitsDefinition objects: the module's DEFAULT_UNITS and one object for
\* each actuator, passed as its units argument
UnitsObjects == {"DEFAULT_UNITS", "units_1", "units_2"}

\* the variables of the UnitsDefinition objects and of the loop
shared_vars == <<units_heap, units_ref>>

loop_vars == <<killer, clock>>

\* the variables of the one controller
actpack_vars == <<_mode, _has_gains, _data, _units, is_open, device_cmd>>

Modes == {"VOLTAGE", "POSITION", "CURRENT", "IMPEDANCE"}

\* LoopKiller(fade_time)
LoopKiller(fade_time) ==
    [_fade_time |-> fade_time, _soft_kill_time |-> <<>>,
     _kill_now |-> FALSE, _kill_soon |-> FALSE]

\* raw frames the device may deliver
MotAngs == {0, MaxMotAng - 1, MaxMotAng}

MotCurs == {0, MaxMotCur}

Frames == {[mot_ang |-> a, mot_cur |-> c] : a \in MotAngs, c \in MotCurs}

\* the force argument of a setter call: left out, True or False
ForceArgs == {"omitted", "True", "False"}

\* the value of a force parameter whose default is dflt
Force(farg, dflt) == IF farg = "omitted" THEN dflt ELSE farg = "True"

\* command values the application passes (floats)
Values == {FromInt(0), FromInt(MaxValue)}

\* ------------------------------------------------------------------------
\* Calls observed during an operation
\* ------------------------------------------------------------------------
Ev(t, m, a) == [t |-> t, m |-> m, a |-> a]

\* Device.send_motor_command(mode id, value)
send_motor_command(m, v) == Ev("send_motor_command", m, <<v>>)

\* Device.set_gains(kp, ki, kd, k, b, ff)
set_gains(kp, ki, kd, k, b, ff) == Ev("set_gains", "NONE", <<kp, ki, kd, k, b, ff>>)

\* what the device has received when no motor command was sent yet
no_command == Ev("none", "NONE", <<>>)

\* outcome of a method: exception (or "ok"), calls made, has_gains afterwards
Eff(err, tr, hg) == [err |-> err, tr |-> tr, hg |-> hg]

\* ------------------------------------------------------------------------
\* Telemetry
\* ------------------------------------------------------------------------
\* DephyActpack.motor_angle
motor_angle(d, u) ==
    convert_from_default_units(u, FMul(FromInt(d.mot_ang), RAD_PER_COUNT), "angle")

\* The set-point of PositionMode._entry and ImpedanceMode._entry:
\*   int(units.convert_to_default_units(device.motor_angle, "angle") / RAD_PER_COUNT)
rehome_counts(d, u) ==
    FToInt(FDiv(convert_to_default_units(u, motor_angle(d, u), "angle"), RAD_PER_COUNT))

\* rehome_counts tabulated once over the frames and the angle units (it reads
\* nothing else), so that the float arithmetic is not redone in every step
RehomeTable ==
    {<<a, un, rehome_counts([mot_ang |-> a, mot_cur |-> 0],
                            [DEFAULT_UNITS EXCEPT !["angle"] = un])>> :
        a \in MotAngs, un \in DOMAIN ALL_UNITS["angle"]}

rehome(d, u) ==
    (CHOOSE r \in RehomeTable : r[1] = d.mot_ang /\ r[2] = u["angle"])[3]

\* ------------------------------------------------------------------------
\* The mode classes
\* ------------------------------------------------------------------------
VoltageMode_entry(hg) == Eff("ok", <<>>, hg)

VoltageMode_set_qaxis_voltage(hg, voltage) ==
    Eff("ok", <<send_motor_command("VOLTAGE", voltage)>>, hg)

VoltageMode_exit(hg) == VoltageMode_set_qaxis_voltage(hg, 0)

\* CurrentMode._set_gains passing kp and ki to the device in the wrong order
CurrentMode_set_gains_swapped(hg, kp, ki, ff) ==
    IF ~(0 <= kp /\ kp <= 80) \/ ~(0 <= ki /\ ki <= 800) \/ ~(0 <= ff /\ ff <= 128)
    THEN Eff("AssertionError", <<>>, hg)
    ELSE Eff("ok", <<set_gains(ki, kp, 0, 0, 0, ff)>>,
             [hg EXCEPT !["CURRENT"] = TRUE])

CurrentMode_set_gains(hg, kp, ki, ff) ==
    IF ~(0 <= kp /\ kp <= 80) \/ ~(0 <= ki /\ ki <= 800) \/ ~(0 <= ff /\ ff <= 128)
    THEN Eff("AssertionError", <<>>, hg)
    ELSE Eff("ok", <<set_gains(kp, ki, 0, 0, 0, ff)>>,
             [hg EXCEPT !["CURRENT"] = TRUE])

CurrentMode_set_qaxis_current(hg, current) ==
    Eff("ok", <<send_motor_command("CURRENT", current)>>, hg)

\* CurrentMode._entry without the has_gains test: defaults pushed on every entry
CurrentMode_entry_always_gains(hg) ==
    LET g == CurrentMode_set_gains(hg, DEFAULT_CURRENT_GAINS.kp,
                                   DEFAULT_CURRENT_GAINS.ki,
                                   DEFAULT_CURRENT_GAINS.ff)
    IN  IF g.err # "ok" THEN g
        ELSE Eff("ok", g.tr \o CurrentMode_set_qaxis_current(g.hg, 0).tr, g.hg)

CurrentMode_entry(hg) ==
    LET g == IF ~hg["CURRENT"]
             THEN CurrentMode_set_gains(hg, DEFAULT_CURRENT_GAINS.kp,
                                        DEFAULT_CURRENT_GAINS.ki,
                                        DEFAULT_CURRENT_GAINS.ff)
             ELSE Eff("ok", <<>>, hg)
    IN  IF g.err # "ok" THEN g
        ELSE Eff("ok", g.tr \o CurrentMode_set_qaxis_current(g.hg, 0).tr, g.hg)

\* CurrentMode._exit forgetting that the gains were pushed
CurrentMode_exit_clears_gains(hg) ==
    Eff("ok", <<send_motor_command("VOLTAGE", 0)>>, [hg EXCEPT !["CURRENT"] = FALSE])

CurrentMode_exit(hg) == Eff("ok", <<send_motor_command("VOLTAGE", 0)>>, hg)

PositionMode_set_gains(hg, kp, ki, kd) ==
    IF ~(0 <= kp /\ kp <= 1000) \/ ~(0 <= ki /\ ki <= 1000) \/ ~(0 <= kd /\ kd <= 1000)
    THEN Eff("AssertionError", <<>>, hg)
    ELSE Eff("ok", <<set_gains(kp, ki, kd, 0, 0, 0)>>,
             [hg EXCEPT !["POSITION"] = TRUE])

PositionMode_set_motor_angle(hg, counts) ==
    Eff("ok", <<send_motor_command("POSITION", counts)>>, hg)

\* PositionMode._entry without the has_gains test: defaults pushed on every entry
PositionMode_entry_always_gains(hg, d, u) ==
    LET g == PositionMode_set_gains(hg, DEFAULT_POSITION_GAINS.kp,
                                    DEFAULT_POSITION_GAINS.ki,
                                    DEFAULT_POSITION_GAINS.kd)
    IN  IF g.err # "ok" THEN g
        ELSE Eff("ok",
                 g.tr \o PositionMode_set_motor_angle(g.hg, rehome(d, u)).tr,
                 g.hg)

PositionMode_entry(hg, d, u) ==
    LET g == IF ~hg["POSITION"]
             THEN PositionMode_set_gains(hg, DEFAULT_POSITION_GAINS.kp,
                                         DEFAULT_POSITION_GAINS.ki,
                                         DEFAULT_POSITION_GAINS.kd)
             ELSE Eff("ok", <<>>, hg)
    IN  IF g.err # "ok" THEN g
        ELSE Eff("ok",
                 g.tr \o PositionMode_set_motor_angle(g.hg, rehome(d, u)).tr,
                 g.hg)

\* PositionMode._exit leaving the motor under position control
PositionMode_exit_no_command(hg) == Eff("ok", <<>>, hg)

PositionMode_exit(hg) == Eff("ok", <<send_motor_command("VOLTAGE", 0)>>, hg)

ImpedanceMode_set_gains(hg, kp, ki, K, B, ff) ==
    IF ~(0 <= kp /\ kp <= 80) \/ ~(0 <= ki /\ ki <= 800) \/ ~(0 <= ff /\ ff <= 128)
       \/ ~(0 <= K) \/ ~(0 <= B)
    THEN Eff("AssertionError", <<>>, hg)
    ELSE Eff("ok", <<set_gains(kp, ki, 0, K, B, ff)>>,
             [hg EXCEPT !["IMPEDANCE"] = TRUE])

ImpedanceMode_set_motor_angle(hg, counts) ==
    Eff("ok", <<send_motor_command("IMPEDANCE", counts)>>, hg)

ImpedanceMode_entry(hg, d, u) ==
    LET g == IF ~hg["IMPEDANCE"]
             THEN ImpedanceMode_set_gains(hg, DEFAULT_IMPEDANCE_GAINS.kp,
                                          DEFAULT_IMPEDANCE_GAINS.ki,
                                          DEFAULT_IMPEDANCE_GAINS.K,
                                          DEFAULT_IMPEDANCE_GAINS.B,
                                          DEFAULT_IMPEDANCE_GAINS.ff)
             ELSE Eff("ok", <<>>, hg)
    IN  IF g.err # "ok" THEN g
        ELSE Eff("ok",
                 g.tr \o ImpedanceMode_set_motor_angle(g.hg, rehome(d, u)).tr,
                 g.hg)

ImpedanceMode_exit(hg) == Eff("ok", <<send_motor_command("VOLTAGE", 0)>>, hg)

\* an outcome with the call that produced it put in front of its trace
Called(name, m, e) == Eff(e.err, <<Ev(name, m, <<>>)>> \o e.tr, e.hg)

\* ActpackMode.enter: runs the entry callback of mode m
enter(m, hg, d, u) ==
    Called("enter", m,
           CASE m = "VOLTAGE"   -> VoltageMode_entry(hg)
             [] m = "CURRENT"   -> CurrentMode_entry(hg)
             [] m = "POSITION"  -> PositionMode_entry(hg, d, u)
             [] m = "IMPEDANCE" -> ImpedanceMode_entry(hg, d, u))

\* ActpackMode.exit: runs the exit callback of mode m
exit(m, hg) ==
    Called("exit", m,
           CASE m = "VOLTAGE"   -> VoltageMode_exit(hg)
             [] m = "CURRENT"   -> CurrentMode_exit(hg)
             [] m = "POSITION"  -> PositionMode_exit(hg)
             [] m = "IMPEDANCE" -> ImpedanceMode_exit(hg))

\* two calls in sequence: x and then, unless x raised, n (which was made
\* with the has_gains that x left)
AndThen(x, n) ==
    IF x.err # "ok" THEN x ELSE Eff(n.err, x.tr \o n.tr, n.hg)

\* ActpackMode.transition with the two calls in the wrong order
transition_enter_first(self, to_state, hg, d, u) ==
    CHOOSE r \in {AndThen(n, exit(self, n.hg)) : n \in {enter(to_state, hg, d, u)}} :
        TRUE

\* ActpackMode.transition: self.exit(); to_state.enter()
transition(self, to_state, hg, d, u) ==
    CHOOSE r \in {AndThen(x, enter(to_state, x.hg, d, u)) : x \in {exit(self, hg)}} :
        TRUE

\* self._mode._set_gains(**kw): the method of the class of mode m, called
\* with the keyword arguments kw; an absent method is an AttributeError, a
\* keyword the method does not take is a TypeError, a keyword left out takes
\* the method's default.
Kw(kw, name, default) == IF name \in DOMAIN kw THEN kw[name] ELSE default

mode_set_gains(m, hg, kw) ==
    CASE m = "VOLTAGE" -> Eff("AttributeError", <<>>, hg)
      [] m = "CURRENT" ->
            IF ~(DOMAIN kw \subseteq {"kp", "ki", "ff"})
            THEN Eff("TypeError", <<>>, hg)
            ELSE CurrentMode_set_gains(hg,
                    Kw(kw, "kp", DEFAULT_CURRENT_GAINS.kp),
                    Kw(kw, "ki", DEFAULT_CURRENT_GAINS.ki),
                    Kw(kw, "ff", DEFAULT_CURRENT_GAINS.ff))
      [] m = "POSITION" ->
            IF ~(DOMAIN kw \subseteq {"kp", "ki", "kd"})
            THEN Eff("TypeError", <<>>, hg)
            ELSE PositionMode_set_gains(hg,
                    Kw(kw, "kp", DEFAULT_POSITION_GAINS.kp),
                    Kw(kw, "ki", DEFAULT_POSITION_GAINS.ki),
                    Kw(kw, "kd", DEFAULT_POSITION_GAINS.kd))
      [] m = "IMPEDANCE" ->
            IF ~(DOMAIN kw \subseteq {"kp", "ki", "K", "B", "ff"})
            THEN Eff("TypeError", <<>>, hg)
            ELSE ImpedanceMode_set_gains(hg,
                    Kw(kw, "kp", DEFAULT_IMPEDANCE_GAINS.kp),
                    Kw(kw, "ki", DEFAULT_IMPEDANCE_GAINS.ki),
                    Kw(kw, "K", DEFAULT_IMPEDANCE_GAINS.K),
                    Kw(kw, "B", DEFAULT_IMPEDANCE_GAINS.B),
                    Kw(kw, "ff", DEFAULT_IMPEDANCE_GAINS.ff))

\* self._mode._set_qaxis_voltage(v): only VoltageMode defines it
mode_set_qaxis_voltage(m, hg, v) ==
    IF m = "VOLTAGE" THEN VoltageMode_set_qaxis_voltage(hg, v)
    ELSE Eff("AttributeError", <<>>, hg)

\* self._mode._set_qaxis_current(v): only CurrentMode defines it
mode_set_qaxis_current(m, hg, v) ==
    IF m = "CURRENT" THEN CurrentMode_set_qaxis_current(hg, v)
    ELSE Eff("AttributeError", <<>>, hg)

\* self._mode._set_motor_angle(counts): PositionMode and ImpedanceMode
mode_set_motor_angle(m, hg, counts) ==
    CASE m = "POSITION"  -> PositionMode_set_motor_angle(hg, counts)
      [] m = "IMPEDANCE" -> ImpedanceMode_set_motor_angle(hg, counts)
      [] OTHER           -> Eff("AttributeError", <<>>, hg)

\* ------------------------------------------------------------------------
\* Arguments the application passes
\* ------------------------------------------------------------------------
\* (kp, ki, kd) for set_position_gains: the largest legal triple and one
\* violation per parameter
PositionGainArgs ==
    {<<1000, 1000, 1000>>, <<1001, 50, 0>>, <<200, 1001, 0>>, <<200, 50, 0 - 1>>}

\* (kp, ki, ff) for set_current_gains
CurrentGainArgs ==
    {<<80, 800, 128>>, <<81, 800, 128>>, <<80, 801, 128>>, <<80, 800, 129>>}

\* (kp, ki, K, B, ff) for set_impedance_gains
ImpedanceGainArgs ==
    {<<80, 800, 500, 2000, 128>>, <<81, 800, 500, 2000, 128>>,
     <<80, 800, 0 - 1, 2000, 128>>, <<80, 800, 500, 0 - 1, 128>>}

\* keys and unit names passed to units[key] = value
UnitKeys == {"angle", "speed"}

UnitNames == {"rad", "deg", "V"}

\* ------------------------------------------------------------------------
\* DephyActpack
\* ------------------------------------------------------------------------
\* a constructor that leaves the active mode unset
Init_no_mode ==
    /\ _mode = "NONE"
    /\ _has_gains = [m \in Modes |-> FALSE]
    /\ _data = [mot_ang |-> 0, mot_cur |-> 0]
    /\ _units = DEFAULT_UNITS
    /\ is_open = FALSE
    /\ device_cmd = no_command
    /\ op = [name |-> "__init__", farg |-> "none", force |-> FALSE, from |-> "NONE",
             to |-> "NONE", args |-> <<>>]
    /\ result = "ok"
    /\ trace = <<>>
    /\ units_heap = [o \in UnitsObjects |-> DEFAULT_UNITS]
    /\ units_ref = [h \in Holders |-> "DEFAULT_UNITS"]
    /\ killer = LoopKiller(0)
    /\ clock = 0

Init ==
    /\ _mode = "VOLTAGE"
    /\ _has_gains = [m \in Modes |-> FALSE]
    /\ _data = [mot_ang |-> 0, mot_cur |-> 0]
    /\ _units = DEFAULT_UNITS
    /\ is_open = FALSE
    /\ device_cmd = no_command
    /\ op = [name |-> "__init__", farg |-> "none", force |-> FALSE, from |-> "NONE",
             to |-> "NONE", args |-> <<>>]
    /\ result = "ok"
    /\ trace = <<>>
    /\ units_heap = [o \in UnitsObjects |-> DEFAULT_UNITS]
    /\ units_ref = [h \in Holders |-> "DEFAULT_UNITS"]
    /\ killer = LoopKiller(0)
    /\ clock = 0

\* what every operation records when it returns or raises: the outcome eff
\* of its body
\* the last send_motor_command among the calls tr, or prev if there is none
last_motor_command(prev, tr) ==
    IF \E i \in 1..Len(tr) : tr[i].t = "send_motor_command"
    THEN tr[CHOOSE i \in 1..Len(tr) :
                /\ tr[i].t = "send_motor_command"
                /\ \A j \in (i + 1)..Len(tr) : tr[j].t # "send_motor_command"]
    ELSE prev

Done(name, farg, force, from, to, args, eff) ==
    \E e \in {eff} :
        /\ op' = [name |-> name, farg |-> farg, force |-> force, from |-> from,
                  to |-> to, args |-> args]
        /\ result' = e.err
        /\ trace' = e.tr
        /\ _has_gains' = e.hg
        /\ device_cmd' = last_motor_command(device_cmd, e.tr)
        /\ UNCHANGED <<shared_vars, loop_vars>>

\* the head of a setter that transitions whatever force says
require_mode_ignores_force(required, force) ==
    IF _mode # required
    THEN transition(_mode, required, _has_gains, _data, _units)
    ELSE Eff("ok", <<>>, _has_gains)

\* the head of a setter that, when forced, transitions even from the
\* required mode itself
require_mode_always_transitions(required, force) ==
    IF force
    THEN transition(_mode, required, _has_gains, _data, _units)
    ELSE IF _mode # required
         THEN Eff("ValueError", <<>>, _has_gains)
         ELSE Eff("ok", <<>>, _has_gains)

\* the head of every mode-dependent setter:
\*   if self._mode != self._modes[X]:
\*       if force: self._mode.transition(self._modes[X])
\*       else: raise ValueError
require_mode(required, force) ==
    IF _mode # required
    THEN IF force
         THEN transition(_mode, required, _has_gains, _data, _units)
         ELSE Eff("ValueError", <<>>, _has_gains)
    ELSE Eff("ok", <<>>, _has_gains)

\* start() reading a first frame from the device once it streams
start_reading_frame ==
    \E f \in Frames :
        /\ \E e \in {enter(_mode, _has_gains, f, _units)} :
              Done("start", "none", FALSE, _mode, "NONE", <<>>,
                   AndThen(Eff("ok", <<Ev("open", "NONE", <<>>),
                                       Ev("start_streaming", "NONE",
                                          <<DEFAULT_FREQUENCY>>)>>,
                               _has_gains),
                           e))
        /\ _data' = f
        /\ is_open' = TRUE
        /\ UNCHANGED <<_mode, _units>>

\* start() entering the mode before the device is open and streaming
start_enter_first ==
    /\ \E e \in {enter(_mode, _has_gains, _data, _units)} :
          Done("start", "none", FALSE, _mode, "NONE", <<>>,
               AndThen(e,
                       Eff("ok", <<Ev("open", "NONE", <<>>),
                                   Ev("start_streaming", "NONE",
                                      <<DEFAULT_FREQUENCY>>)>>,
                           e.hg)))
    /\ is_open' = TRUE
    /\ UNCHANGED <<_mode, _data, _units>>

start ==
    /\ \E e \in {enter(_mode, _has_gains, _data, _units)} :
          Done("start", "none", FALSE, _mode, "NONE", <<>>,
               AndThen(Eff("ok", <<Ev("open", "NONE", <<>>),
                                   Ev("start_streaming", "NONE",
                                      <<DEFAULT_FREQUENCY>>)>>,
                           _has_gains),
                       e))
    /\ is_open' = TRUE
    /\ UNCHANGED <<_mode, _data, _units>>

stop ==
    /\ Done("stop", "none", FALSE, _mode, "NONE", <<>>,
            Eff("ok", <<Ev("close", "NONE", <<>>)>>, _has_gains))
    /\ is_open' = FALSE
    /\ UNCHANGED <<_mode, _data, _units>>

\* update() copying only the motor angle of the frame read into the stored one
update_angle_only ==
    \E f \in Frames :
        /\ _data' = [_data EXCEPT !.mot_ang = f.mot_ang]
        /\ Done("update", "none", FALSE, _mode, "NONE", <<>>,
                Eff("ok", <<Ev("read", "NONE", <<f>>)>>, _has_gains))
        /\ UNCHANGED <<_mode, _units, is_open>>

update ==
    \E f \in Frames :
        /\ _data' = f
        /\ Done("update", "none", FALSE, _mode, "NONE", <<>>,
                Eff("ok", <<Ev("read", "NONE", <<f>>)>>, _has_gains))
        /\ UNCHANGED <<_mode, _units, is_open>>

set_position_gains ==
    \E a \in PositionGainArgs, farg \in ForceArgs :
      \E force \in {Force(farg, TRUE)} :
        /\ \E g \in {require_mode("POSITION", force)} :
              Done("set_position_gains", farg, force, _mode, "POSITION", a,
                AndThen(g,
                    mode_set_gains(_mode, g.hg, [kp |-> a[1], ki |-> a[2], kd |-> a[3]])))
        /\ UNCHANGED <<_mode, _data, _units, is_open>>

set_current_gains ==
    \E a \in CurrentGainArgs, farg \in ForceArgs :
      \E force \in {Force(farg, TRUE)} :
        /\ \E g \in {require_mode("CURRENT", force)} :
              Done("set_current_gains", farg, force, _mode, "CURRENT", a,
                AndThen(g,
                    mode_set_gains(_mode, g.hg, [kp |-> a[1], ki |-> a[2], ff |-> a[3]])))
        /\ UNCHANGED <<_mode, _data, _units, is_open>>

set_impedance_gains ==
    \E a \in ImpedanceGainArgs, farg \in ForceArgs :
      \E force \in {Force(farg, TRUE)} :
        /\ \E g \in {require_mode("IMPEDANCE", force)} :
              Done("set_impedance_gains", farg, force, _mode, "IMPEDANCE", a,
                AndThen(g,
                    mode_set_gains(_mode, g.hg,
                        [kp |-> a[1], ki |-> a[2], K |-> a[3], B |-> a[4],
                         ff |-> a[5]])))
        /\ UNCHANGED <<_mode, _data, _units, is_open>>

set_q_axis_voltage ==
    \E value \in Values, farg \in ForceArgs :
      \E force \in {Force(farg, FALSE)} :
        /\ \E g \in {require_mode("VOLTAGE", force)} :
              Done("set_q_axis_voltage", farg, force, _mode, "VOLTAGE", <<value>>,
                AndThen(g,
                    mode_set_qaxis_voltage(_mode, g.hg,
                        FToInt(convert_to_default_units(_units, value, "voltage")))))
        /\ UNCHANGED <<_mode, _data, _units, is_open>>

set_q_axis_current ==
    \E value \in Values, farg \in ForceArgs :
      \E force \in {Force(farg, FALSE)} :
        /\ \E g \in {require_mode("CURRENT", force)} :
              Done("set_q_axis_current", farg, force, _mode, "CURRENT", <<value>>,
                AndThen(g,
                    mode_set_qaxis_current(_mode, g.hg,
                        FToInt(convert_to_default_units(_units, value, "current")))))
        /\ UNCHANGED <<_mode, _data, _units, is_open>>

set_motor_torque ==
    \E torque \in Values, farg \in ForceArgs :
      \E force \in {Force(farg, FALSE)} :
        /\ \E g \in {require_mode("CURRENT", force)} :
              Done("set_motor_torque", farg, force, _mode, "CURRENT", <<torque>>,
                AndThen(g,
                    mode_set_qaxis_current(_mode, g.hg,
                        FToInt(FDiv(convert_to_default_units(_units, torque, "torque"),
                                    NM_PER_MILLIAMP)))))
        /\ UNCHANGED <<_mode, _data, _units, is_open>>

\* set_motor_angle without the test of the active mode
set_motor_angle_any_mode ==
    \E angle \in Values :
        /\ Done("set_motor_angle", "none", FALSE, _mode, "NONE", <<angle>>,
                mode_set_motor_angle(_mode, _has_gains,
                    FToInt(FDiv(convert_to_default_units(_units, angle, "angle"),
                                RAD_PER_COUNT))))
        /\ UNCHANGED <<_mode, _data, _units, is_open>>

set_motor_angle ==
    \E angle \in Values :
        /\ Done("set_motor_angle", "none", FALSE, _mode, "NONE", <<angle>>,
                AndThen(IF _mode \notin {"POSITION", "IMPEDANCE"}
                        THEN Eff("ValueError", <<>>, _has_gains)
                        ELSE Eff("ok", <<>>, _has_gains),
                    mode_set_motor_angle(_mode, _has_gains,
                        FToInt(FDiv(convert_to_default_units(_units, angle, "angle"),
                                    RAD_PER_COUNT)))))
        /\ UNCHANGED <<_mode, _data, _units, is_open>>

\* a transition that also makes its target the controller's tracked mode
call_transition_tracking ==
    \E self \in Modes, to_state \in Modes :
        /\ \E e \in {transition(self, to_state, _has_gains, _data, _units)} :
              Done("transition", "none", TRUE, self, to_state, <<>>, e)
        /\ _mode' = to_state
        /\ UNCHANGED <<_data, _units, is_open>>

\* ActpackMode.transition called on one of the controller's mode objects
call_transition ==
    \E self \in Modes, to_state \in Modes :
        /\ \E e \in {transition(self, to_state, _has_gains, _data, _units)} :
              Done("transition", "none", TRUE, self, to_state, <<>>, e)
        /\ UNCHANGED <<_mode, _data, _units, is_open>>

\* UnitsDefinition.__setitem__ storing whatever it is given
units_setitem_unchecked ==
    \E key \in UnitKeys, value \in UnitNames :
        /\ Done("units_setitem", "none", FALSE, _mode, "NONE", <<key, value>>,
                Eff("ok", <<>>, _has_gains))
        /\ _units' = (key :> value) @@ _units
        /\ UNCHANGED <<_mode, _data, is_open>>

\* UnitsDefinition.__setitem__ checking the category but not the unit name
units_setitem_any_unit ==
    \E key \in UnitKeys, value \in UnitNames :
        /\ Done("units_setitem", "none", FALSE, _mode, "NONE", <<key, value>>,
                Eff(IF key \notin DOMAIN _units THEN "KeyError" ELSE "ok",
                    <<>>, _has_gains))
        /\ _units' = IF key \in DOMAIN _units
                     THEN [_units EXCEPT ![key] = value]
                     ELSE _units
        /\ UNCHANGED <<_mode, _data, is_open>>

\* UnitsDefinition.__setitem__ on the controller's units
units_setitem ==
    \E key \in UnitKeys, value \in UnitNames :
        /\ Done("units_setitem", "none", FALSE, _mode, "NONE", <<key, value>>,
                Eff(IF key \notin DOMAIN _units THEN "KeyError"
                    ELSE IF value \notin DOMAIN ALL_UNITS[key] THEN "ValueError"
                    ELSE "ok", <<>>, _has_gains))
        /\ _units' = IF key \in DOMAIN _units /\ value \in DOMAIN ALL_UNITS[key]
                     THEN [_units EXCEPT ![key] = value]
                     ELSE _units
        /\ UNCHANGED <<_mode, _data, is_open>>

\* UnitsDefinition.__getitem__ on the controller's units
units_getitem ==
    \E key \in UnitKeys :
        /\ Done("units_getitem", "none", FALSE, _mode, "NONE", <<key>>,
                IF key \notin DOMAIN _units
                THEN Eff("KeyError", <<>>, _has_gains)
                ELSE Eff("ok", <<Ev("return", "NONE", <<_units[key]>>)>>, _has_gains))
        /\ UNCHANGED <<_mode, _data, _units, is_open>>

Next ==
    \/ start
    \/ stop
    \/ update
    \/ set_position_gains
    \/ set_current_gains
    \/ set_impedance_gains
    \/ set_q_axis_voltage
    \/ set_q_axis_current
    \/ set_motor_torque
    \/ set_motor_angle
    \/ call_transition
    \/ units_setitem
    \/ units_getitem

Spec == Init /\ [][Next]_vars

\* ------------------------------------------------------------------------
\* Command encoding and telemetry under every voltage, current and torque unit
\* ------------------------------------------------------------------------
\* DephyActpack.q_axis_current
q_axis_current(d, u) ==
    convert_from_default_units(u, FromInt(d.mot_cur), "current")

\* DephyActpack.motor_torque: the second definition of the class body, which
\* replaces the first
motor_torque(d, u) ==
    CHOOSE r \in {convert_from_default_units(u, FMul(i, NM_PER_AMP), "torque")
                    : i \in {q_axis_current(d, u)}} : TRUE

\* the selections of voltage, current and torque units
EncodeSelections ==
    {[DEFAULT_UNITS EXCEPT !["voltage"] = v, !["current"] = c, !["torque"] = t]
        : v \in DOMAIN ALL_UNITS["voltage"], c \in DOMAIN ALL_UNITS["current"],
          t \in DOMAIN ALL_UNITS["torque"]}

\* a controller constructed with units=u
EncodeInit ==
    /\ _mode = "VOLTAGE"
    /\ _has_gains = [m \in Modes |-> FALSE]
    /\ _data = [mot_ang |-> 0, mot_cur |-> 0]
    /\ _units \in EncodeSelections
    /\ is_open = FALSE
    /\ device_cmd = no_command
    /\ op = [name |-> "__init__", farg |-> "none", force |-> FALSE, from |-> "NONE",
             to |-> "NONE", args |-> <<>>]
    /\ result = "ok"
    /\ trace = <<>>
    /\ units_heap = [o \in UnitsObjects |-> DEFAULT_UNITS]
    /\ units_ref = [h \in Holders |-> "DEFAULT_UNITS"]
    /\ killer = LoopKiller(0)
    /\ clock = 0

\* reading the property motor_torque
read_motor_torque ==
    /\ \E r \in {motor_torque(_data, _units)} :
          Done("motor_torque", "none", FALSE, _mode, "NONE", <<>>,
               Eff("ok", <<Ev("return", "NONE", <<r>>)>>, _has_gains))
    /\ UNCHANGED <<_mode, _data, _units, is_open>>

EncodeNext ==
    \/ update
    \/ set_q_axis_voltage
    \/ set_q_axis_current
    \/ set_motor_torque
    \/ read_motor_torque

EncodeSpec == EncodeInit /\ [][EncodeNext]_vars

\* ------------------------------------------------------------------------
\* Several holders of a _units attribute in one process
\* ------------------------------------------------------------------------
\* `self._units = units if units else DEFAULT_UNITS` in each actuator, units
\* being omitted or the actuator's own object; `self._units = DEFAULT_UNITS`
\* in the leg
SharedInit ==
    /\ _mode = "VOLTAGE"
    /\ _has_gains = [m \in Modes |-> FALSE]
    /\ _data = [mot_ang |-> 0, mot_cur |-> 0]
    /\ _units = DEFAULT_UNITS
    /\ is_open = FALSE
    /\ device_cmd = no_command
    /\ op = [name |-> "__init__", farg |-> "none", force |-> FALSE, from |-> "NONE",
             to |-> "NONE", args |-> <<>>]
    /\ result = "ok"
    /\ trace = <<>>
    /\ units_heap = [o \in UnitsObjects |-> DEFAULT_UNITS]
    /\ units_ref \in {[h \in Holders |->
                         IF h = "actpack_1" THEN r1
                         ELSE IF h = "actpack_2" THEN r2
                         ELSE "DEFAULT_UNITS"]
                      : r1 \in {"DEFAULT_UNITS", "units_1"},
                        r2 \in {"DEFAULT_UNITS", "units_2"}}
    /\ killer = LoopKiller(0)
    /\ clock = 0

\* h.units[key] = value: UnitsDefinition.__setitem__ on the object that the
\* _units of holder h is (op.from records h)
holder_units_setitem ==
    \E h \in Holders, key \in UnitKeys, value \in UnitNames :
      \E o \in {units_ref[h]} :
        /\ op' = [name |-> "units_setitem", farg |-> "none", force |-> FALSE,
                  from |-> h, to |-> "NONE", args |-> <<key, value>>]
        /\ result' = IF key \notin DOMAIN units_heap[o] THEN "KeyError"
                     ELSE IF value \notin DOMAIN ALL_UNITS[key] THEN "ValueError"
                     ELSE "ok"
        /\ trace' = <<>>
        /\ units_heap' = IF key \in DOMAIN units_heap[o] /\ value \in DOMAIN ALL_UNITS[key]
                         THEN [units_heap EXCEPT ![o][key] = value]
                         ELSE units_heap
        /\ UNCHANGED <<actpack_vars, units_ref, loop_vars>>

\* h.units.convert_to_default_units(value, "angle")
holder_convert_to_default_units ==
    \E h \in Holders, value \in Values :
      \E r \in {convert_to_default_units(units_heap[units_ref[h]], value, "angle")} :
        /\ op' = [name |-> "convert_to_default_units", farg |-> "none",
                  force |-> FALSE, from |-> h, to |-> "NONE",
                  args |-> <<value, "angle">>]
        /\ result' = "ok"
        /\ trace' = <<Ev("return", "NONE", <<r>>)>>
        /\ UNCHANGED <<actpack_vars, shared_vars, loop_vars>>

SharedNext ==
    \/ holder_units_setitem
    \/ holder_convert_to_default_units

SharedSpec == SharedInit /\ [][SharedNext]_vars

\* ------------------------------------------------------------------------
\* LoopKiller and SoftRealtimeLoop.stop()
\* ------------------------------------------------------------------------
FadeTimes == {0, MaxFade}

\* the setter of kill_now assigning True without any fade
kill_now_setter_immediate(k, val, t) ==
    IF val
    THEN [k EXCEPT !._kill_now = TRUE]
    ELSE [k EXCEPT !._kill_now = FALSE, !._kill_soon = FALSE,
                   !._soft_kill_time = <<>>]

\* the setter of the property kill_now, at time t
kill_now_setter(k, val, t) ==
    IF val
    THEN IF k._kill_soon
         THEN [k EXCEPT !._kill_now = TRUE]
         ELSE IF k._fade_time > 0
              THEN [k EXCEPT !._kill_soon = TRUE, !._soft_kill_time = <<t>>]
              ELSE [k EXCEPT !._kill_now = TRUE]
    ELSE [k EXCEPT !._kill_now = FALSE, !._kill_soon = FALSE,
                   !._soft_kill_time = <<>>]

\* the getter of kill_now turning true as soon as the fade time is reached
kill_now_getter_at_fade(k, t) ==
    IF k._kill_now THEN [value |-> TRUE, killer |-> k]
    ELSE IF k._kill_soon /\ t - k._soft_kill_time[1] >= k._fade_time
         THEN [value |-> TRUE, killer |-> [k EXCEPT !._kill_now = TRUE]]
         ELSE [value |-> FALSE, killer |-> k]

\* the getter of the property kill_now, at time t: the value returned and
\* the fields afterwards
kill_now_getter(k, t) ==
    IF k._kill_now THEN [value |-> TRUE, killer |-> k]
    ELSE IF k._kill_soon /\ t - k._soft_kill_time[1] > k._fade_time
         THEN [value |-> TRUE, killer |-> [k EXCEPT !._kill_now = TRUE]]
         ELSE [value |-> FALSE, killer |-> k]

\* SoftRealtimeLoop(fade=f): self.killer = LoopKiller(fade_time=f)
LoopInit ==
    /\ _mode = "VOLTAGE"
    /\ _has_gains = [m \in Modes |-> FALSE]
    /\ _data = [mot_ang |-> 0, mot_cur |-> 0]
    /\ _units = DEFAULT_UNITS
    /\ is_open = FALSE
    /\ device_cmd = no_command
    /\ op = [name |-> "__init__", farg |-> "none", force |-> FALSE, from |-> "NONE",
             to |-> "NONE", args |-> <<>>]
    /\ result = "ok"
    /\ trace = <<>>
    /\ units_heap = [o \in UnitsObjects |-> DEFAULT_UNITS]
    /\ units_ref = [h \in Holders |-> "DEFAULT_UNITS"]
    /\ killer \in {LoopKiller(f) : f \in FadeTimes}
    /\ clock = 0

\* time passes
tick ==
    /\ clock < MaxClock
    /\ clock' = clock + 1
    /\ op' = [name |-> "tick", farg |-> "none", force |-> FALSE, from |-> "NONE",
              to |-> "NONE", args |-> <<>>]
    /\ result' = "ok"
    /\ trace' = <<>>
    /\ UNCHANGED <<actpack_vars, shared_vars, killer>>

\* killer.kill_now = val
set_kill_now ==
    \E val \in BOOLEAN :
        /\ op' = [name |-> "set_kill_now", farg |-> "none", force |-> FALSE,
                  from |-> "NONE", to |-> "NONE", args |-> <<val>>]
        /\ result' = "ok"
        /\ trace' = <<>>
        /\ killer' = kill_now_setter(killer, val, clock)
        /\ UNCHANGED <<actpack_vars, shared_vars, clock>>

\* LoopKiller.handle_signal(signum, frame): self.kill_now = True
handle_signal ==
    /\ op' = [name |-> "handle_signal", farg |-> "none", force |-> FALSE,
              from |-> "NONE", to |-> "NONE", args |-> <<TRUE>>]
    /\ result' = "ok"
    /\ trace' = <<>>
    /\ killer' = kill_now_setter(killer, TRUE, clock)
    /\ UNCHANGED <<actpack_vars, shared_vars, clock>>

\* SoftRealtimeLoop.stop(): self.killer.kill_now = True
loop_stop ==
    /\ op' = [name |-> "loop_stop", farg |-> "none", force |-> FALSE,
              from |-> "NONE", to |-> "NONE", args |-> <<TRUE>>]
    /\ result' = "ok"
    /\ trace' = <<>>
    /\ killer' = kill_now_setter(killer, TRUE, clock)
    /\ UNCHANGED <<actpack_vars, shared_vars, clock>>

\* reading killer.kill_now
read_kill_now ==
    \E g \in {kill_now_getter(killer, clock)} :
        /\ op' = [name |-> "kill_now", farg |-> "none", force |-> FALSE,
                  from |-> "NONE", to |-> "NONE", args |-> <<>>]
        /\ result' = "ok"
        /\ trace' = <<Ev("return", "NONE", <<g.value>>)>>
        /\ killer' = g.killer
        /\ UNCHANGED <<actpack_vars, shared_vars, clock>>

LoopNext ==
    \/ tick
    \/ set_kill_now
    \/ handle_signal
    \/ loop_stop
    \/ read_kill_now

LoopSpec == LoopInit /\ [][LoopNext]_vars

\* ------------------------------------------------------------------------
\* The conversions of UnitsDefinition, applied one after the other
\* ------------------------------------------------------------------------
\* the selections that differ from the defaults in at most one category:
\* every registered unit of every category is the selected one in one of them
Selections ==
    UNION {{[DEFAULT_UNITS EXCEPT ![c] = un] : un \in DOMAIN ALL_UNITS[c]}
             : c \in Categories}

\* 1e-6
MICRO == Dbl(17592186, 11922829, -72)

\* the values converted: 0, 1, -1, 1e6, 1e-6
ConvertValues ==
    {FromInt(0), FromInt(1), FromInt(-1), FromInt(1000000), MICRO}

\* a controller constructed with units=u, u any selection
ConvertInit ==
    /\ _mode = "VOLTAGE"
    /\ _has_gains = [m \in Modes |-> FALSE]
    /\ _data = [mot_ang |-> 0, mot_cur |-> 0]
    /\ _units \in Selections
    /\ is_open = FALSE
    /\ device_cmd = no_command
    /\ op = [name |-> "__init__", farg |-> "none", force |-> FALSE, from |-> "NONE",
             to |-> "NONE", args |-> <<>>]
    /\ result = "ok"
    /\ trace = <<>>
    /\ units_heap = [o \in UnitsObjects |-> DEFAULT_UNITS]
    /\ units_ref = [h \in Holders |-> "DEFAULT_UNITS"]
    /\ killer = LoopKiller(0)
    /\ clock = 0

\* self._units.convert_to_default_units(value, attribute)
call_convert_to_default_units ==
    \E value \in ConvertValues, attribute \in Categories :
        /\ \E r \in {convert_to_default_units(_units, value, attribute)} :
              Done("convert_to_default_units", "none", FALSE, "NONE", "NONE",
                   <<value, attribute>>,
                   Eff("ok", <<Ev("return", "NONE", <<r>>)>>, _has_gains))
        /\ UNCHANGED <<_mode, _data, _units, is_open>>

\* self._units.convert_from_default_units(value, attribute), value being
\* what convert_to_default_units has just returned for the same attribute
call_convert_from_default_units ==
    /\ op.name = "convert_to_default_units"
    /\ \E r \in {convert_from_default_units(_units, trace[1].a[1], op.args[2])} :
          Done("convert_from_default_units", "none", FALSE, "NONE", "NONE",
               <<trace[1].a[1], op.args[2]>>,
               Eff("ok", <<Ev("return", "NONE", <<r>>)>>, _has_gains))
    /\ UNCHANGED <<_mode, _data, _units, is_open>>

ConvertNext ==
    \/ call_convert_to_default_units
    \/ call_convert_from_default_units

ConvertSpec == ConvertInit /\ [][ConvertNext]_vars

\* ------------------------------------------------------------------------
\* Vocabulary of the properties
\* ------------------------------------------------------------------------
GainSetters == {"set_position_gains", "set_current_gains", "set_impedance_gains"}

CommandSetters == {"set_q_axis_voltage", "set_q_axis_current", "set_motor_torque"}

ModeSetters == GainSetters \cup CommandSetters

IsCall(e) == e.t \in {"exit", "enter"}

IsMotorCmd(e) == e.t = "send_motor_command"

IsGainsCall(e) == e.t = "set_gains"

IsDeviceWrite(e) == IsMotorCmd(e) \/ IsGainsCall(e)

Calls(tr) == SelectSeq(tr, IsCall)

MotorCmds(tr) == SelectSeq(tr, IsMotorCmd)

GainsCalls(tr) == SelectSeq(tr, IsGainsCall)

DeviceWrites(tr) == SelectSeq(tr, IsDeviceWrite)

CmdsOf(tr, m) == SelectSeq(tr, LAMBDA e : IsMotorCmd(e) /\ e.m = m)

Last(sq) == sq[Len(sq)]

\* the operation o ran ActpackMode.transition
Transitioned(o) ==
    \/ o.name = "transition"
    \/ o.name \in ModeSetters /\ o.force /\ o.from # o.to

\* what follows the i-th entry of the trace
After(tr, i) == SubSeq(tr, i + 1, Len(tr))

\* number of device calls at the end of the trace that are the setter's own
\* (made after the head of the setter), not the entry's
Own(o, res) == IF o.name \in ModeSetters /\ res = "ok" THEN 1 ELSE 0

\* the bounds table of the gains, by setter
InBounds(o) ==
    CASE o.name = "set_current_gains" ->
            /\ o.args[1] \in 0..80 /\ o.args[2] \in 0..800 /\ o.args[3] \in 0..128
      [] o.name = "set_position_gains" ->
            /\ o.args[1] \in 0..1000 /\ o.args[2] \in 0..1000 /\ o.args[3] \in 0..1000
      [] o.name = "set_impedance_gains" ->
            /\ o.args[1] \in 0..80 /\ o.args[2] \in 0..800
            /\ o.args[3] >= 0 /\ o.args[4] >= 0 /\ o.args[5] \in 0..128

\* the six values <<kp, ki, kd, K, B, ff>> a gain setter is to send
SixValues(o) ==
    CASE o.name = "set_current_gains" ->
            <<o.args[1], o.args[2], 0, 0, 0, o.args[3]>>
      [] o.name = "set_position_gains" ->
            <<o.args[1], o.args[2], o.args[3], 0, 0, 0>>
      [] o.name = "set_impedance_gains" ->
            <<o.args[1], o.args[2], 0, o.args[3], o.args[4], o.args[5]>>

\* the protocol value a command setter is to send
CommandValue(o, u) ==
    CASE o.name = "set_q_axis_voltage" ->
            FToInt(convert_to_default_units(u, o.args[1], "voltage"))
      [] o.name = "set_q_axis_current" ->
            FToInt(convert_to_default_units(u, o.args[1], "current"))
      [] o.name = "set_motor_torque" ->
            FToInt(FDiv(convert_to_default_units(u, o.args[1], "torque"),
                        NM_PER_MILLIAMP))

\* the floats x and y differ by at most 2^22 units in the last place, which
\* is less than 1e-9 of their magnitude
Near(dhi, dlo) ==
    /\ dhi \in -1..1
    /\ dhi * W28 + dlo <= Pow2(22)
    /\ 0 - (dhi * W28 + dlo) <= Pow2(22)

FClose(x, y) ==
    IF FIsZero(x) \/ FIsZero(y) THEN FIsZero(x) /\ FIsZero(y)
    ELSE /\ x.s = y.s
         /\ IF x.e = y.e THEN Near(x.hi - y.hi, x.lo - y.lo)
            ELSE IF x.e = y.e + 1 THEN Near(2 * x.hi - y.hi, 2 * x.lo - y.lo)
            ELSE IF y.e = x.e + 1 THEN Near(2 * y.hi - x.hi, 2 * y.lo - x.lo)
            ELSE FALSE

RowCurrent(a) ==
    /\ a[1] \in 0..80 /\ a[2] \in 0..800 /\ a[3] = 0 /\ a[4] = 0 /\ a[5] = 0
    /\ a[6] \in 0..128

RowPosition(a) ==
    /\ a[1] \in 0..1000 /\ a[2] \in 0..1000 /\ a[3] \in 0..1000
    /\ a[4] = 0 /\ a[5] = 0 /\ a[6] = 0

RowImpedance(a) ==
    /\ a[1] \in 0..80 /\ a[2] \in 0..800 /\ a[3] = 0 /\ a[4] >= 0 /\ a[5] >= 0
    /\ a[6] \in 0..128

\* ------------------------------------------------------------------------
\* Properties
\* ------------------------------------------------------------------------

\* C1: a transition from `from` to `to` runs exactly one exit() of `from` and
\* then exactly one enter() of `to`, in that order, and nothing but a
\* transition (and start()) runs an enter() or an exit().
C1_ExitThenEnter ==
    /\ Transitioned(op) =>
          Calls(trace) = <<Ev("exit", op.from, <<>>), Ev("enter", op.to, <<>>)>>
    /\ (~Transitioned(op) /\ op.name # "start") => Calls(trace) = <<>>

C1_Witness ==
    /\ op.name = "set_impedance_gains" /\ op.force /\ op.from = "VOLTAGE"
    /\ Calls(trace) = <<Ev("exit", "VOLTAGE", <<>>), Ev("enter", "IMPEDANCE", <<>>)>>

\* C2: after a setter called with force=true while another mode is active,
\* the controller's tracked active mode equals the mode the setter requires.
C2_TrackedModeIsTarget ==
    (op.name \in ModeSetters /\ op.force /\ op.from # op.to) => _mode = op.to

\* C3: a setter that requires a mode, called with force=false while another
\* mode is active, fails with the wrong-mode error, makes no call at all, and
\* leaves the active mode and every has_gains flag unchanged.
C3_WrongModeRejected ==
    [][(op'.name \in ModeSetters /\ ~op'.force /\ _mode # op'.to) =>
          /\ result' = "ValueError"
          /\ trace' = <<>>
          /\ _mode' = _mode
          /\ _has_gains' = _has_gains]_vars

C3_Witness ==
    /\ op.name = "set_q_axis_current" /\ ~op.force /\ op.from = "VOLTAGE"
    /\ result = "ValueError" /\ trace = <<>>

\* C4: a command setter called with force=true from a mismatched mode
\* transitions first and then issues its command: the call completes without
\* error and the last motor command is the required mode's command carrying
\* the converted value.
C4_ForcedSetterCommands ==
    (op.name \in CommandSetters /\ op.force /\ op.from # op.to) =>
        /\ result = "ok"
        /\ Calls(trace) = <<Ev("exit", op.from, <<>>), Ev("enter", op.to, <<>>)>>
        /\ MotorCmds(trace) # <<>>
        /\ Last(MotorCmds(trace)) = send_motor_command(op.to, CommandValue(op, _units))

\* C5: a gain setter called with a value outside its mode's bounds fails with
\* the invalid-gains error and the device is not written during the call
\* (stated for force=true, the default of the gain setters).
C5_InvalidGainsNeverWritten ==
    (op.name \in GainSetters /\ op.force /\ ~InBounds(op)) =>
        /\ result = "AssertionError"
        /\ DeviceWrites(trace) = <<>>

\* C6: a gain setter called with in-bounds values and the default force
\* (true) succeeds, the device receives the gains call carrying exactly the
\* six values, and the mode's has_gains flag is true afterwards.
C6_InBoundsGainsApplied ==
    (op.name \in GainSetters /\ op.force /\ InBounds(op)) =>
        /\ result = "ok"
        /\ GainsCalls(trace) # <<>>
        /\ Last(GainsCalls(trace)).a = SixValues(op)
        /\ _has_gains[op.to]

\* C7: every gains call that reaches the device carries a six-tuple that
\* satisfies the Current, the Position or the Impedance row of the bounds
\* table.
C7_GainsWithinBounds ==
    \A i \in 1..Len(trace) :
        IsGainsCall(trace[i]) =>
            RowCurrent(trace[i].a) \/ RowPosition(trace[i].a) \/ RowImpedance(trace[i].a)

C7_Witness ==
    \E i \in 1..Len(trace) :
        IsGainsCall(trace[i]) /\ trace[i].a = <<40, 400, 0, 300, 1600, 128>>

\* C8: entering Position mode when the stored frame's raw motor angle is c
\* makes the first Position-mode motor command carry c, and when the mode's
\* has_gains is false the default position gains are sent before it.
C8_PositionEntryRehomes ==
    [][\A i \in 1..Len(trace') :
          trace'[i] = Ev("enter", "POSITION", <<>>) =>
              LET tail == After(trace', i)
                  cmds == CmdsOf(tail, "POSITION")
              IN  /\ cmds # <<>>
                  /\ cmds[1].a[1] = _data.mot_ang
                  /\ ~_has_gains["POSITION"] =>
                        tail[1] = set_gains(200, 50, 0, 0, 0, 0)]_vars

\* C9: entering Impedance mode sends the impedance default gains first when
\* has_gains is false, and then one Impedance-mode motor command whose value
\* is the measured motor angle in encoder counts.
C9_ImpedanceEntryRehomes ==
    [][\A i \in 1..Len(trace') :
          trace'[i] = Ev("enter", "IMPEDANCE", <<>>) =>
              LET tail == After(trace', i)
                  cmds == CmdsOf(tail, "IMPEDANCE")
              IN  /\ Len(cmds) = 1 + Own(op', result')
                  /\ cmds[1].a[1] = _data.mot_ang
                  /\ ~_has_gains["IMPEDANCE"] =>
                        tail[1] = set_gains(40, 400, 0, 300, 1600, 128)]_vars

\* C10: entering Current mode sends the default current gains if and only if
\* the mode's has_gains is false, and then exactly one Current-mode motor
\* command with value zero; Voltage.enter() sends nothing to the device.
C10_CurrentEntrySequence ==
    [][\A i \in 1..Len(trace') :
          /\ trace'[i] = Ev("enter", "CURRENT", <<>>) =>
                SubSeq(trace', i + 1, Len(trace') - Own(op', result'))
                  = (IF _has_gains["CURRENT"] THEN <<>>
                     ELSE <<set_gains(40, 400, 0, 0, 0, 128)>>)
                    \o <<send_motor_command("CURRENT", 0)>>
          /\ trace'[i] = Ev("enter", "VOLTAGE", <<>>) =>
                SubSeq(trace', i + 1, Len(trace') - Own(op', result')) = <<>>]_vars

C10_Witness ==
    \E i \in 1..Len(trace) :
        /\ trace[i] = Ev("enter", "CURRENT", <<>>)
        /\ After(trace, i) = <<send_motor_command("CURRENT", 0)>>

\* C11: exiting any mode sends exactly one motor command, with the Voltage
\* mode id and value zero, and in a transition that command is the last
\* device call before the entry of the new mode.
C11_ExitZeroVoltage ==
    \A i \in 1..Len(trace) :
        trace[i].t = "exit" =>
            /\ i + 2 <= Len(trace)
            /\ trace[i + 1] = send_motor_command("VOLTAGE", 0)
            /\ trace[i + 2] = Ev("enter", op.to, <<>>)

C11_Witness ==
    /\ op.name = "transition" /\ op.from = "IMPEDANCE" /\ op.to = "POSITION"
    /\ Len(trace) >= 4
    /\ trace[2] = send_motor_command("VOLTAGE", 0)
    /\ trace[3] = Ev("enter", "POSITION", <<>>)
    /\ IsDeviceWrite(trace[4])

\* C12: the active mode is Voltage immediately after construction, and in
\* every reachable state it is one of the four mode objects created at
\* construction.
C12_ActiveModeIsAMode ==
    /\ _mode \in Modes
    /\ op.name = "__init__" => _mode = "VOLTAGE"

C12_Witness ==
    /\ op.name = "set_impedance_gains" /\ op.force
    /\ Calls(trace) = <<Ev("exit", "VOLTAGE", <<>>), Ev("enter", "IMPEDANCE", <<>>)>>
    /\ device_cmd.m = "IMPEDANCE"
    /\ _mode \in Modes

\* C13: set_motor_angle succeeds only when the active mode is Position or
\* Impedance, and then sends one motor command in the active mode's protocol
\* id; in Voltage or Current mode it fails with the wrong-mode error, runs no
\* transition, sends nothing and leaves the active mode unchanged.
C13_MotorAngleNeedsPositionOrImpedance ==
    [][op'.name = "set_motor_angle" =>
          /\ _mode' = _mode
          /\ _has_gains' = _has_gains
          /\ IF _mode \in {"POSITION", "IMPEDANCE"}
             THEN /\ result' = "ok"
                  /\ trace' = <<send_motor_command(_mode,
                          FToInt(FDiv(convert_to_default_units(_units, op'.args[1],
                                                               "angle"),
                                      RAD_PER_COUNT)))>>
             ELSE /\ result' = "ValueError"
                  /\ trace' = <<>>
                  /\ device_cmd' = device_cmd]_vars

C13_Witness ==
    /\ op.name = "set_motor_angle" /\ _mode = "VOLTAGE"
    /\ result = "ValueError" /\ trace = <<>>
    /\ device_cmd.m = "POSITION"

\* C14: called without a force argument while another mode is active, the
\* three gain setters transition into their mode and apply the bounds-checked
\* gains, whereas set_q_axis_voltage, set_q_axis_current and set_motor_torque
\* fail with the wrong-mode error and do not transition.
C14_DefaultForceAsymmetric ==
    (op.name \in ModeSetters /\ op.farg = "omitted" /\ op.from # op.to) =>
        IF op.name \in GainSetters
        THEN /\ Calls(trace) = <<Ev("exit", op.from, <<>>), Ev("enter", op.to, <<>>)>>
             /\ InBounds(op) =>
                    /\ result = "ok"
                    /\ GainsCalls(trace) # <<>>
                    /\ Last(GainsCalls(trace)).a = SixValues(op)
        ELSE /\ result = "ValueError"
             /\ trace = <<>>

\* the mode whose _set_gains made the i-th call of tr: the mode entered last
\* before it, or the active mode when no mode was entered during the operation
GainsMode(tr, i, active) ==
    IF \E j \in 1..(i - 1) : tr[j].t = "enter"
    THEN tr[CHOOSE j \in 1..(i - 1) :
                /\ tr[j].t = "enter"
                /\ \A k \in (j + 1)..(i - 1) : tr[k].t # "enter"].m
    ELSE active

\* a gains call of mode m was sent to the device during the operation
GainsSentFor(tr, m, active) ==
    \E i \in 1..Len(tr) : IsGainsCall(tr[i]) /\ GainsMode(tr, i, active) = m

\* C15: each mode's has_gains flag is false at construction, becomes true
\* exactly when a gains call for that mode has been sent to the device, and
\* once true is never reset by any operation.
C15_HasGainsLatched ==
    /\ \A m \in Modes : ~_has_gains[m]
    /\ [][\A m \in Modes :
            _has_gains'[m] = (_has_gains[m] \/ GainsSentFor(trace', m, _mode))]_vars

C15_Witness ==
    /\ _has_gains["CURRENT"] /\ ~_has_gains["POSITION"]
    /\ op.name = "transition" /\ op.from = "CURRENT" /\ op.to = "IMPEDANCE"
    /\ result = "ok"

\* the gains call that sends the default gains of mode m
DefaultGainsCall(m) ==
    CASE m = "CURRENT"   -> set_gains(40, 400, 0, 0, 0, 128)
      [] m = "POSITION"  -> set_gains(200, 50, 0, 0, 0, 0)
      [] m = "IMPEDANCE" -> set_gains(40, 400, 0, 300, 1600, 128)

\* C16: default gains are applied lazily and at most once per mode: an entry
\* into a mode sends that mode's default gains, once, if its has_gains is
\* false, and sends no gains call at all if its has_gains is true.
C16_DefaultGainsOnlyOnFirstEntry ==
    [][\A i \in 1..Len(trace') :
          trace'[i].t = "enter" =>
              GainsCalls(SubSeq(trace', i + 1, Len(trace') - Own(op', result')))
                = IF trace'[i].m # "VOLTAGE" /\ ~_has_gains[trace'[i].m]
                  THEN <<DefaultGainsCall(trace'[i].m)>>
                  ELSE <<>>]_vars

C16_Witness ==
    /\ op.name = "set_position_gains" /\ op.force /\ op.from # op.to
    /\ GainsCalls(trace) = <<>>
    /\ CmdsOf(trace, "POSITION") # <<>>
    /\ _has_gains["POSITION"]

\* C17: update() performs exactly one device read and replaces the stored
\* frame wholesale with the frame read; it sends no motor or gains command
\* and changes neither the active mode nor any has_gains flag.
C17_UpdateReplacesFrame ==
    [][op'.name = "update" =>
          /\ result' = "ok"
          /\ Len(trace') = 1
          /\ trace'[1].t = "read"
          /\ _data' = trace'[1].a[1]
          /\ _mode' = _mode
          /\ _has_gains' = _has_gains
          /\ device_cmd' = device_cmd]_vars

C17_Witness ==
    /\ op.name = "update"
    /\ trace = <<Ev("read", "NONE", <<[mot_ang |-> 0, mot_cur |-> MaxMotCur]>>)>>
    /\ _data = [mot_ang |-> 0, mot_cur |-> MaxMotCur]
    /\ _has_gains["CURRENT"]

\* C18: start() performs, in this order, device open, start of streaming at
\* the configured frequency and enter() of the initial (Voltage) mode, without
\* changing the active mode; stop() closes the device.
C18_StartStopSequence ==
    /\ op.name = "start" =>
          /\ result = "ok"
          /\ trace = <<Ev("open", "NONE", <<>>),
                       Ev("start_streaming", "NONE", <<DEFAULT_FREQUENCY>>),
                       Ev("enter", "VOLTAGE", <<>>)>>
          /\ _mode = op.from
          /\ is_open
    /\ op.name = "stop" =>
          /\ result = "ok"
          /\ trace = <<Ev("close", "NONE", <<>>)>>
          /\ _mode = op.from
          /\ ~is_open

C18_Witness ==
    /\ op.name = "start" /\ is_open
    /\ Len(trace) = 3 /\ trace[3] = Ev("enter", "VOLTAGE", <<>>)
    /\ device_cmd.m = "CURRENT"

\* C19: whenever stop() closes the device, the controller has transitioned to
\* Voltage mode beforehand and the last motor command the device received
\* before the close is a zero q-axis voltage command.
C19_StopLandsDeEnergized ==
    op.name = "stop" =>
        device_cmd \in {no_command, send_motor_command("VOLTAGE", 0)}

\* C20: assigning a unit fails with the unknown-category error when the
\* category is not in the selection and with the invalid-unit error when the
\* unit name is not registered for the category in ALL_UNITS, and in both
\* cases leaves the selection unchanged; reading an absent category fails
\* with the unknown-category error.
C20_UnitsSetGetErrors ==
    [][/\ op'.name = "units_setitem" =>
            IF op'.args[1] \notin DOMAIN _units
            THEN result' = "KeyError" /\ _units' = _units
            ELSE IF op'.args[2] \notin DOMAIN ALL_UNITS[op'.args[1]]
            THEN result' = "ValueError" /\ _units' = _units
            ELSE /\ result' = "ok"
                 /\ _units' = [_units EXCEPT ![op'.args[1]] = op'.args[2]]
       /\ op'.name = "units_getitem" =>
            /\ _units' = _units
            /\ IF op'.args[1] \notin DOMAIN _units
               THEN result' = "KeyError" /\ trace' = <<>>
               ELSE /\ result' = "ok"
                    /\ trace' = <<Ev("return", "NONE", <<_units[op'.args[1]]>>)>>]_vars

C20_Witness ==
    /\ op.name = "units_setitem" /\ op.args = <<"angle", "V">>
    /\ result = "ValueError"
    /\ _units["angle"] = "deg"

\* C21: starting from the fully populated default selection, after any
\* sequence of successful or failed set operations the selection still holds
\* every one of the 13 quantity categories, each mapped to one unit name
\* registered in that category's table.
C21_SelectionFullyPopulated ==
    /\ DOMAIN _units = Categories
    /\ Cardinality(DOMAIN _units) = 13
    /\ \A c \in Categories : _units[c] \in DOMAIN ALL_UNITS[c]

C21_Witness ==
    /\ op.name = "units_setitem" /\ op.args = <<"speed", "rad">>
    /\ result = "KeyError"
    /\ _units = [DEFAULT_UNITS EXCEPT !["angle"] = "deg"]

\* C22: unit conversion round-trips: for every category and every unit
\* registered for it, when that unit is the selected one,
\* convert_from_default_units(convert_to_default_units(x, category), category)
\* equals x within 1e-9 relative tolerance for x in {0, 1, -1, 1e6, 1e-6};
\* the factor of every registered unit is non-zero.
C22_RoundTrip ==
    /\ \A c \in Categories : \A un \in DOMAIN ALL_UNITS[c] :
          ~FIsZero(ALL_UNITS[c][un])
    /\ [][(op.name = "convert_to_default_units"
             /\ op'.name = "convert_from_default_units") =>
            /\ result' = "ok"
            /\ FClose(trace'[1].a[1], op.args[1])]_vars

C22_Witness ==
    /\ op.name = "convert_from_default_units" /\ op.args[2] = "force"
    /\ _units["force"] = "kgf"
    /\ trace = <<Ev("return", "NONE", <<Dbl(32000000, 1, -33)>>)>>

\* C23: there is no shared mutable global unit state: changing a unit in the
\* selection of one controller constructed without an explicit units argument
\* leaves the selection of every other holder, and the process-wide defaults,
\* unchanged.
C23_NoSharedUnitState ==
    [][(/\ op'.name = "units_setitem"
        /\ op'.from \in {"actpack_1", "actpack_2"}
        /\ units_ref[op'.from] = "DEFAULT_UNITS") =>
          /\ \A h \in Holders \ {op'.from} :
                units_heap'[units_ref'[h]] = units_heap[units_ref[h]]
          /\ units_heap'["DEFAULT_UNITS"] = units_heap["DEFAULT_UNITS"]]_vars

\* the operations that assign kill_now
KillAssignments == {"set_kill_now", "handle_signal", "loop_stop"}

\* a soft kill is pending
Pending(k) == k._kill_soon /\ ~k._kill_now

\* C24: a kill request is two-staged: assigning kill_now = True when
\* fade_time > 0 and no soft kill is pending sets kill_soon and records the
\* soft-kill time while leaving _kill_now false; assigning True again while a
\* soft kill is pending sets _kill_now; assigning True when fade_time is 0 (as
\* handle_signal does on a default LoopKiller) sets _kill_now at once;
\* assigning False clears _kill_now, _kill_soon and _soft_kill_time.
C24_TwoStagedKill ==
    [][op'.name \in KillAssignments =>
          /\ killer'._fade_time = killer._fade_time
          /\ IF op'.args[1]
             THEN IF killer._kill_soon
                  THEN /\ killer'._kill_now
                       /\ killer'._kill_soon
                       /\ killer'._soft_kill_time = killer._soft_kill_time
                  ELSE IF killer._fade_time > 0
                  THEN /\ killer'._kill_soon
                       /\ killer'._soft_kill_time = <<clock>>
                       /\ ~killer'._kill_now
                  ELSE /\ killer'._kill_now
                       /\ ~killer'._kill_soon
                       /\ killer'._soft_kill_time = <<>>
             ELSE /\ ~killer'._kill_now
                  /\ ~killer'._kill_soon
                  /\ killer'._soft_kill_time = <<>>]_vars

C24_Witness ==
    /\ op.name = "set_kill_now" /\ op.args = <<TRUE>>
    /\ killer = [_fade_time |-> MaxFade, _soft_kill_time |-> <<1>>,
                 _kill_now |-> TRUE, _kill_soon |-> TRUE]
    /\ clock = 2

\* what reading kill_now must return while a soft kill is pending, and the
\* latch
ReadsWhilePending ==
    [][op'.name = "kill_now" =>
          /\ Pending(killer) =>
                trace'[1].a[1] = (clock - killer._soft_kill_time[1] > killer._fade_time)
          /\ killer._kill_now => trace'[1].a[1]
          /\ trace'[1].a[1] => killer'._kill_now]_vars

\* C25 as stated: while a soft kill is pending, reading kill_now returns false
\* as long as the time elapsed since the soft-kill time does not exceed
\* fade_time, true once it exceeds it, and true on every later read;
\* SoftRealtimeLoop.stop() makes killer.kill_now read true.
C25_ReadsAndStop ==
    /\ ReadsWhilePending
    /\ [][op'.name = "loop_stop" => kill_now_getter(killer', clock').value]_vars

\* C25, with stop() stated by cases: the same for the reads; stop() makes
\* kill_now read true at once exactly when fade_time is 0 or a soft kill was
\* already requested, and otherwise makes a soft kill pending from the time of
\* the call.
C25_ReadsAndStopAfterFade ==
    /\ ReadsWhilePending
    /\ [][op'.name = "loop_stop" =>
            IF killer._fade_time = 0 \/ killer._kill_soon
            THEN kill_now_getter(killer', clock').value
            ELSE /\ ~kill_now_getter(killer', clock').value
                 /\ Pending(killer')
                 /\ killer'._soft_kill_time = <<clock>>]_vars

C25_Witness ==
    /\ op.name = "loop_stop"
    /\ killer = [_fade_time |-> MaxFade, _soft_kill_time |-> <<1>>,
                 _kill_now |-> FALSE, _kill_soon |-> TRUE]
    /\ clock = 1

C27_TorqueTelemetry ==
    /\ (op.name = "set_motor_torque" /\ result = "ok") =>
          /\ MotorCmds(trace) # <<>>
          /\ Last(MotorCmds(trace)) = send_motor_command("CURRENT", CommandValue(op, _units))
    /\ op.name = "motor_torque" =>
          FClose(trace[1].a[1],
                 convert_from_default_units(
                     _units, FMul(FromInt(_data.mot_cur), NM_PER_MILLIAMP), "torque"))

\* C28: a setter called while its required mode is already the active mode
\* performs no transition whatever force says: no exit() and no enter() runs,
\* no zero-voltage exit command and no default gains are sent, and the only
\* device call made is the setter's own command or its own gains call.
C28_NoTransitionInRequiredMode ==
    (op.name \in ModeSetters /\ op.from = op.to) =>
        /\ Calls(trace) = <<>>
        /\ Len(trace) <= 1
        /\ op.name \in CommandSetters =>
              trace = <<send_motor_command(op.to, CommandValue(op, _units))>>
        /\ op.name \in GainSetters => MotorCmds(trace) = <<>>

C28_Witness ==
    /\ op.name = "set_q_axis_voltage" /\ op.farg = "True" /\ op.from = "VOLTAGE"
    /\ trace = <<send_motor_command("VOLTAGE", MaxValue)>>
    /\ device_cmd = send_motor_command("VOLTAGE", MaxValue)
    /\ _has_gains["POSITION"]

\* C29: in every state reachable from construction by any sequence of public
\* operations, returning or failing, the controller's tracked active mode is
\* the Voltage mode object: no operation reassigns it.
C29_TrackedModeStaysVoltage ==
    _mode = "VOLTAGE"

C29_Witness ==
    /\ op.name = "set_q_axis_current" /\ op.force
    /\ device_cmd.m = "CURRENT"
    /\ _mode = "VOLTAGE"

\* C30: after every completed public operation, returned or raised, if at
\* least one motor command has been sent, the protocol mode of the most
\* recent motor command equals the controller's tracked active mode.
C30_TrackedModeIsDeviceMode ==
    device_cmd # no_command => device_cmd.m = _mode

\* a device read is among the calls tr
IsRead(e) == e.t = "read"

\* C31: only update() changes the stored telemetry frame: setters, mode
\* entries and exits, start() and stop() never read from the device and never
\* modify the frame, so the set-point of Position/Impedance re-homing is
\* computed from the frame stored by the most recent update(), or from the
\* empty frame of construction when update() has not been called yet.
C31_OnlyUpdateChangesFrame ==
    /\ _data = [mot_ang |-> 0, mot_cur |-> 0]
    /\ [][/\ op'.name # "update" =>
                /\ _data' = _data
                /\ SelectSeq(trace', IsRead) = <<>>
           /\ \A i \in 1..Len(trace') :
                \A m \in {"POSITION", "IMPEDANCE"} :
                    trace'[i] = Ev("enter", m, <<>>) =>
                        /\ CmdsOf(After(trace', i), m) # <<>>
                        /\ CmdsOf(After(trace', i), m)[1].a[1] = rehome(_data, _units)]_vars

C31_Witness ==
    /\ op.name = "set_position_gains" /\ op.force
    /\ _data = [mot_ang |-> MaxMotAng, mot_cur |-> MaxMotCur]
    /\ CmdsOf(trace, "POSITION") # <<>>
    /\ CmdsOf(trace, "POSITION")[1].a[1] = rehome(_data, _units)

\* C32: a setter call that fails (wrong mode, invalid gains, or any other
\* error raised during the call) leaves every mode's has_gains flag unchanged
\* and sends no motor command and no gains call to the device.
C32_FailedSetterAtomic ==
    [][(op'.name \in ModeSetters \cup {"set_motor_angle"} /\ result' # "ok") =>
          /\ _has_gains' = _has_gains
          /\ DeviceWrites(trace') = <<>>
          /\ device_cmd' = device_cmd]_vars

====
